---------------------------- MODULE Spec2Model ----------------------------
(***************************************************************************)
(* A model of odyssey_app.py: the wallet normalisation (process_wallet),  *)
(* the cached table load (load_data) and the Streamlit script main(), one *)
(* whole run of the script per action.                                    *)
(*                                                                         *)
(* Strings are sequences of Unicode code points, so that str.lower() and  *)
(* the slices of process_wallet are computed, not assumed:                *)
(*   48 '0'  49 '1'  50 '2'  57 '9'  65 'A'  67 'C'  69 'E'  97 'a'        *)
(*   98 'b'  100 'd'  102 'f'  120 'x'  8230 the ellipsis                   *)
(*   304 capital I with dot above, whose lower() is the TWO code points   *)
(*   105 775 (i, combining dot above).                                    *)
(* Positions are zero-based as in pandas; sequences are one-based, so the *)
(* row at position p is rows[p + 1].  An optional Python value is <<>>    *)
(* for None and <<v>> for v.                                              *)
(***************************************************************************)
EXTENDS Integers, Sequences, FiniteSets, TLC

VARIABLES
    csv,            \* the file wshards2.csv as it is on disk
    cache,          \* st.cache_data's memo of load_data()
    wallet_input,   \* the text input's value in the current run
    search_button,  \* the button's value in the current run
    out,            \* what the last run of main() computed and rendered
    pc,             \* "start" | "ready" (the app), "build" | "built" (the chart)
    found_before,   \* history: some earlier run of main() found a match
    wallet,         \* process_wallet's argument
    search_wallet,  \* process_wallet(wallet)
    renorm,         \* process_wallet(search_wallet)
    npc             \* "idle" | "input" | "once" | "twice"

vars == <<csv, cache, wallet_input, search_button, out, pc, found_before,
          wallet, search_wallet, renorm, npc>>

(***************************************************************************)
(* Bounds.                                                                 *)
(***************************************************************************)
MaxRecs == 2
MaxLen == 12

Ellipsis == 8230

None == <<>>
Some(v) == <<v>>

Min(a, b) == IF a < b THEN a ELSE b
Max(a, b) == IF a > b THEN a ELSE b

(***************************************************************************)
(* str.lower()                                                             *)
(***************************************************************************)
LowerChar(c) ==
    IF c \in 65..90 THEN <<c + 32>>
    ELSE IF c = 304 THEN <<105, 775>>
    ELSE <<c>>

RECURSIVE Lower(_)
Lower(s) == IF s = <<>> THEN <<>> ELSE LowerChar(Head(s)) \o Lower(Tail(s))

\* s[:n] and s[-n:] for n > 0
SliceTo(s, n) == SubSeq(s, 1, Min(n, Len(s)))
SliceLast(s, n) == SubSeq(s, Max(Len(s) - n, 0) + 1, Len(s))

(***************************************************************************)
(* process_wallet                                                          *)
(***************************************************************************)
process_wallet_short_back(w) ==
    IF Len(w) >= 10
    THEN Lower(SliceTo(w, 6)) \o <<Ellipsis>> \o Lower(SliceLast(w, 3))
    ELSE Lower(w)

process_wallet_gt10(w) ==
    IF Len(w) > 10
    THEN Lower(SliceTo(w, 6)) \o <<Ellipsis>> \o Lower(SliceLast(w, 4))
    ELSE Lower(w)

process_wallet(w) ==
    IF Len(w) >= 10
    THEN LET front == Lower(SliceTo(w, 6))
             back == Lower(SliceLast(w, 4))
         IN  front \o <<Ellipsis>> \o back
    ELSE Lower(w)

(***************************************************************************)
(* The table.  A row of the file is a function from the header's columns; *)
(* reading a column the header lacks raises KeyError in pandas.           *)
(***************************************************************************)
RequiredColumns == {"Name", "Wallet", "Odyssey Drop", "wShards"}

Front == <<48, 120, 65, 98, 67, 100>>      \* 0xAbCd
BackA == <<49, 50, 69, 102>>               \* 12Ef
BackB == <<48, 48, 48, 48>>                \* 0000

\* Wallet cells: a truncated display form (as process_wallet's comment
\* says the file holds), an untruncated address and a short string.
DisplayA == Front \o <<Ellipsis>> \o BackA       \* 0xAbCd...12Ef, 11 characters
FullA == Front \o <<48, 48>> \o BackA            \* 0xAbCd0012Ef, 12 characters
Short == <<48, 120, 65, 98>>                     \* 0xAb
WalletCells == {DisplayA, FullA, Short}

\* (Name, Odyssey Drop, wShards) of a row
Profiles == {<<"alice", 100, 10>>, <<"bob", 0, 0>>}

FullRow(w, p) ==
    ("Name" :> p[1]) @@ ("Wallet" :> w) @@ ("Odyssey Drop" :> p[2]) @@ ("wShards" :> p[3])

FullRows == {FullRow(w, p) : w \in WalletCells, p \in Profiles}

Restrict(f, S) == [c \in (DOMAIN f) \cap S |-> f[c]]

\* the headers: complete, or lacking one required column
Headers == {RequiredColumns} \cup {RequiredColumns \ {c} : c \in RequiredColumns}

\* tables of 1..MaxRecs rows (the empty table is not modelled)
Tables == UNION {[1..n -> FullRows] : n \in 1..MaxRecs}

CsvFiles ==
    {[readable |-> TRUE, columns |-> h, rows |-> [i \in 1..Len(t) |-> Restrict(t[i], h)]] :
        h \in Headers, t \in Tables}
    \cup {[readable |-> FALSE, columns |-> {}, rows |-> <<>>]}

(***************************************************************************)
(* load_data                                                               *)
(***************************************************************************)
EmptyCache == [state |-> "empty", columns |-> {}, rows |-> <<>>]
NoDf == [state |-> "none", columns |-> {}, rows |-> <<>>]

load_data(file) ==
    IF ~file.readable THEN NoDf                  \* read_csv raises, caught
    ELSE IF "Wallet" \notin file.columns THEN NoDf   \* df['Wallet'] raises, caught
    ELSE [state |-> "df",
          columns |-> file.columns \cup {"Wallet_lower"},
          rows |-> [i \in 1..Len(file.rows) |->
                      file.rows[i] @@ ("Wallet_lower" :> Lower(file.rows[i]["Wallet"]))]]

(***************************************************************************)
(* Floats as numpy yields them: a number, -inf (log10 of 0) or nan (the   *)
(* max of an empty column).  The table's quantities are 0 or powers of    *)
(* ten, on which IntLog10 is exact.                                       *)
(***************************************************************************)
Num(n) == [kind |-> "num", val |-> n]
NegInf == [kind |-> "-inf", val |-> 0]
NaN == [kind |-> "nan", val |-> 0]

RECURSIVE IntLog10(_)
IntLog10(v) == IF v < 10 THEN 0 ELSE 1 + IntLog10(v \div 10)

log10(x) ==
    IF x.kind # "num" THEN NaN
    ELSE IF x.val = 0 THEN NegInf
    ELSE Num(IntLog10(x.val))

Column(df, c) == [i \in 1..Len(df.rows) |-> df.rows[i][c]]

RECURSIVE SeqMax(_)
SeqMax(s) == IF Len(s) = 1 THEN s[1] ELSE Max(s[1], SeqMax(Tail(s)))

\* Series.max()
SeriesMax(s) == IF s = <<>> THEN NaN ELSE Num(SeqMax(s))

\* range=[np.log10(1), np.log10(series.max())]
AxisRange(s) == <<log10(Num(1)), log10(SeriesMax(s))>>

(***************************************************************************)
(* Python's list[i] = v: a negative i counts from the end, an i outside   *)
(* [-len, len) raises IndexError.                                         *)
(***************************************************************************)
PyIndexOk(n, i) == -n <= i /\ i < n
PyPos(n, i) == IF i >= 0 THEN i + 1 ELSE n + i + 1

PyListSetNext(list, i, v) == [list EXCEPT ![Min(PyPos(Len(list), i) + 1, Len(list))] = v]

PyListSet(list, i, v) == [list EXCEPT ![PyPos(Len(list), i)] = v]

Fill(n, v) == [i \in 1..n |-> v]

\* "if search_index is not None: list[search_index] = v"
Highlighted(list, search_index, v) ==
    IF search_index = None THEN list ELSE PyListSet(list, search_index[1], v)

(***************************************************************************)
(* The two traces and the layout of the figure, lines 78-195, for a frame *)
(* that has every column.                                                 *)
(***************************************************************************)
TraceA(df, search_index) ==
    LET n == Len(df.rows)
    IN  [x |-> [i \in 1..n |-> i - 1],
         y |-> Column(df, "Odyssey Drop"),
         color |-> Column(df, "Odyssey Drop"),
         size |-> Highlighted(Fill(n, 6), search_index, 12),
         line_width |-> Highlighted(Fill(n, 0), search_index, 2),
         line_color |-> Highlighted(Fill(n, "white"), search_index, "#00ff00")]

TraceB(df, search_index) ==
    LET n == Len(df.rows)
    IN  [x |-> [i \in 1..n |-> (i - 1) + 25],
         y |-> Column(df, "wShards"),
         color |-> Highlighted(Fill(n, "rgba(255, 0, 0, 0.5)"), search_index,
                               "rgba(255, 0, 0, 0.8)"),
         size |-> Highlighted(Fill(n, 4), search_index, 8),
         line_width |-> Highlighted(Fill(n, 0), search_index, 2),
         line_color |-> Highlighted(Fill(n, "white"), search_index, "#00ff00")]

Figure(df, search_index) ==
    [A |-> TraceA(df, search_index),
     B |-> TraceB(df, search_index),
     yaxis |-> AxisRange(Column(df, "Odyssey Drop")),
     yaxis2 |-> AxisRange(Column(df, "wShards"))]

\* what lines 78-197 yield: the figure handed to st.plotly_chart, or the
\* exception that ends the run
BuildChart(df, search_index) ==
    IF search_index # None /\ ~PyIndexOk(Len(df.rows), search_index[1])
    THEN [exception |-> "IndexError", chart |-> None]
    ELSE [exception |-> "none", chart |-> Some(Figure(df, search_index))]

(***************************************************************************)
(* main(): one run of the script.                                         *)
(***************************************************************************)
BlankOut ==
    [error |-> FALSE, sidebar |-> FALSE,
     search_index |-> None, name |-> None, reward |-> None, wshards |-> None,
     chart |-> None, rewards |-> "none", exception |-> "none"]

\* lines 55-58, with the locals of the previous run kept instead
InitSearchLocalsStale ==
    [search_index |-> out.search_index, name |-> out.name,
     reward |-> out.reward, wshards |-> out.wshards]

\* lines 55-58
InitSearchLocals ==
    [search_index |-> None, name |-> None, reward |-> None, wshards |-> None]

\* df[df['Wallet_lower'] == search_wallet].index: the labels of the
\* matching rows, in the frame's order
Matches(df, key) ==
    SelectSeq([i \in 1..Len(df.rows) |-> i - 1],
              LAMBDA p : df.rows[p + 1]["Wallet_lower"] = key)

LastMatch(result) == result[Len(result)]

\* result.iloc[0], result.index[0]
FirstMatch(result) == result[1]

RewardsSectionSilent(searching, name) ==
    IF searching /\ name # None THEN "found" ELSE "none"

\* lines 199-215
RewardsSection(searching, name) ==
    IF searching
    THEN IF name # None THEN "found" ELSE "warning"
    ELSE "none"

\* lines 55-71 for a frame that has every column: the locals after the
\* lookup
SearchLocals(df, wallet_in, button) ==
    LET result == Matches(df, process_wallet(wallet_in))
        p == FirstMatch(result)
    IN  IF button /\ wallet_in # <<>> /\ result # <<>>
        THEN [search_index |-> Some(p),
              name |-> Some(df.rows[p + 1]["Name"]),
              reward |-> Some(df.rows[p + 1]["Odyssey Drop"]),
              wshards |-> Some(df.rows[p + 1]["wShards"])]
        ELSE InitSearchLocals

main(df, wallet_in, button) ==
    IF df.state = "none"
    THEN [BlankOut EXCEPT !.error = TRUE]          \* st.error in load_data; return
    ELSE
    LET has(c) == c \in df.columns
        searching == button /\ wallet_in # <<>>
        result == Matches(df, process_wallet(wallet_in))
        hit == searching /\ result # <<>>
        \* lines 68-70 read Name, Odyssey Drop, wShards of the match;
        \* lines 80-175 read Odyssey Drop, Name, Wallet, wShards of every row
        keyError == \/ hit /\ ~(has("Name") /\ has("Odyssey Drop") /\ has("wShards"))
                    \/ ~has("Odyssey Drop")
                    \/ df.rows # <<>> /\ ~(has("Name") /\ has("Wallet") /\ has("wShards"))
                    \/ ~has("wShards")
    IN  IF keyError
        THEN [BlankOut EXCEPT !.sidebar = TRUE, !.exception = "KeyError"]
        ELSE
        LET locals == SearchLocals(df, wallet_in, button)
            built == BuildChart(df, locals.search_index)
        IN  [error |-> FALSE, sidebar |-> TRUE,
             search_index |-> locals.search_index, name |-> locals.name,
             reward |-> locals.reward, wshards |-> locals.wshards,
             chart |-> built.chart,
             rewards |-> IF built.exception = "none"
                         THEN RewardsSection(searching, locals.name)
                         ELSE "none",
             exception |-> built.exception]

(***************************************************************************)
(* The session: the script runs once at the start and again on every      *)
(* widget change.  load_data's body runs on the first call only.          *)
(***************************************************************************)
UpperChar(c) == IF c \in 97..122 THEN c - 32 ELSE c
Upper(s) == [i \in 1..Len(s) |-> UpperChar(s[i])]

\* what the user may type: nothing, and in three casings the cells and an
\* address whose key no cell has
TypedBases == WalletCells \cup {Front \o <<57, 57>> \o BackB}
SearchInputs == {<<>>} \cup TypedBases \cup {Lower(w) : w \in TypedBases}
                   \cup {Upper(w) : w \in TypedBases}

NormIdle == wallet = <<>> /\ search_wallet = <<>> /\ renorm = <<>> /\ npc = "idle"

Init ==
    /\ csv \in CsvFiles
    /\ cache = EmptyCache
    /\ wallet_input = <<>>
    /\ search_button = FALSE
    /\ out = BlankOut
    /\ pc = "start"
    /\ found_before = FALSE
    /\ NormIdle

Run(w, b) ==
    /\ cache' = IF cache.state = "empty" THEN load_data(csv) ELSE cache
    /\ wallet_input' = w
    /\ search_button' = b
    /\ out' = main(cache', w, b)
    /\ pc' = "ready"
    /\ found_before' = (found_before \/ out.search_index # None)
    /\ UNCHANGED <<csv, wallet, search_wallet, renorm, npc>>

SessionStart == pc = "start" /\ Run(<<>>, FALSE)

\* the text input commits a new value: a rerun with the button not clicked
EditWallet(w) == pc = "ready" /\ out.sidebar /\ w # wallet_input /\ Run(w, FALSE)

\* the button is clicked: a rerun with the text as it stands
ClickSearch == pc = "ready" /\ out.sidebar /\ Run(wallet_input, TRUE)

\* the page is loaded again: the widgets are back at their defaults
Reload == pc = "ready" /\ Run(<<>>, FALSE)

Next ==
    \/ SessionStart
    \/ \E w \in SearchInputs : EditWallet(w)
    \/ ClickSearch
    \/ Reload

Spec == Init /\ [][Next]_vars

(***************************************************************************)
(* process_wallet on its own: every string of up to MaxLen characters     *)
(* that is '0' but in two places, applied once and then to its result.    *)
(***************************************************************************)
Alphabet == {48, 65, 97, 304, Ellipsis}

WalletStrings ==
    {[i \in 1..n |-> IF i = p THEN c ELSE IF i = q THEN d ELSE 48] :
        n \in 0..MaxLen, p \in 1..MaxLen, q \in 1..MaxLen, c \in Alphabet, d \in Alphabet}

AppIdle ==
    /\ csv = [readable |-> FALSE, columns |-> {}, rows |-> <<>>]
    /\ cache = EmptyCache
    /\ wallet_input = <<>>
    /\ search_button = FALSE
    /\ out = BlankOut
    /\ found_before = FALSE

InitNorm ==
    /\ wallet \in WalletStrings
    /\ search_wallet = <<>>
    /\ renorm = <<>>
    /\ npc = "input"
    /\ AppIdle
    /\ pc = "idle"

Normalize ==
    /\ npc = "input"
    /\ search_wallet' = process_wallet(wallet)
    /\ npc' = "once"
    /\ UNCHANGED <<csv, cache, wallet_input, search_button, out, pc, found_before,
                   wallet, renorm>>

Renormalize ==
    /\ npc = "once"
    /\ renorm' = process_wallet(search_wallet)
    /\ npc' = "twice"
    /\ UNCHANGED <<csv, cache, wallet_input, search_button, out, pc, found_before,
                   wallet, search_wallet>>

NextNorm == Normalize \/ Renormalize

SpecNorm == InitNorm /\ [][NextNorm]_vars

(***************************************************************************)
(* The chart construction on its own: a run of main() on a frame that has *)
(* every column, stopped after the lookup (line 71), and then lines       *)
(* 78-197 applied to the search_index the lookup left.                    *)
(***************************************************************************)
InitChart ==
    /\ csv \in {f \in CsvFiles : f.readable /\ f.columns = RequiredColumns}
    /\ cache = load_data(csv)
    /\ wallet_input \in SearchInputs
    /\ search_button \in BOOLEAN
    /\ LET locals == SearchLocals(cache, wallet_input, search_button)
       IN  out = [BlankOut EXCEPT !.sidebar = TRUE,
                                  !.search_index = locals.search_index,
                                  !.name = locals.name,
                                  !.reward = locals.reward,
                                  !.wshards = locals.wshards]
    /\ pc = "build"
    /\ found_before = FALSE
    /\ NormIdle

Build ==
    /\ pc = "build"
    /\ LET built == BuildChart(cache, out.search_index)
       IN  out' = [out EXCEPT !.chart = built.chart, !.exception = built.exception]
    /\ pc' = "built"
    /\ UNCHANGED <<csv, cache, wallet_input, search_button, found_before,
                   wallet, search_wallet, renorm, npc>>

NextChart == Build

SpecChart == InitChart /\ [][NextChart]_vars

(***************************************************************************)
(* Properties.                                                             *)
(***************************************************************************)
\* a run of main() has ended on a loaded frame that has every column
Loaded == pc = "ready" /\ cache.state = "df" /\ RequiredColumns \subseteq csv.columns

Rows == cache.rows
Key(i) == Rows[i]["Wallet_lower"]

\* the zero-based positions whose stored key is the normalized input
MatchSet == {p \in 0..(Len(Rows) - 1) : Key(p + 1) = process_wallet(wallet_input)}
SetMin(S) == CHOOSE m \in S : \A k \in S : m <= k

IsDisplayForm(w) == Len(w) = 11 /\ w[7] = Ellipsis

\* every marker of both traces has its default style
NoHighlight(c) ==
    \A i \in 1..Len(c.A.size) :
        /\ c.A.size[i] = 6 /\ c.A.line_width[i] = 0 /\ c.A.line_color[i] = "white"
        /\ c.B.size[i] = 4 /\ c.B.line_width[i] = 0 /\ c.B.line_color[i] = "white"
        /\ c.B.color[i] = "rgba(255, 0, 0, 0.5)"

\* C1: every stored key is process_wallet of the record's Wallet
\* cell, and searching a record's Wallet cell of 10 or more characters, in
\* any letter casing, finds a record with that Wallet cell.
C1_Orig ==
    Loaded =>
        /\ \A i \in 1..Len(Rows) : Key(i) = process_wallet(Rows[i]["Wallet"])
        /\ \A i \in 1..Len(Rows) :
              (/\ search_button
               /\ Len(Rows[i]["Wallet"]) >= 10
               /\ Lower(wallet_input) = Lower(Rows[i]["Wallet"]))
              => /\ out.search_index # None
                 /\ Lower(Rows[out.search_index[1] + 1]["Wallet"]) = Lower(Rows[i]["Wallet"])

\* C2: a search returns the record at the smallest position whose stored
\* key equals the normalized input, with that position, its name, drop
\* amount and shard count, and highlights that position; it returns nothing
\* when no key matches or the input is empty.
C2_FirstMatchWins ==
    Loaded =>
        IF search_button /\ wallet_input # <<>> /\ MatchSet # {}
        THEN LET p == SetMin(MatchSet)
             IN  /\ out.search_index = Some(p)
                 /\ out.name = Some(Rows[p + 1]["Name"])
                 /\ out.reward = Some(Rows[p + 1]["Odyssey Drop"])
                 /\ out.wshards = Some(Rows[p + 1]["wShards"])
                 /\ out.rewards = "found"
                 /\ out.chart # None
                 /\ out.chart[1].A.size[p + 1] = 12
                 /\ out.chart[1].B.size[p + 1] = 8
        ELSE /\ out.search_index = None
             /\ out.name = None /\ out.reward = None /\ out.wshards = None
             /\ out.rewards # "found"

\* two records share the key and differ in name: the first one is returned
C2_Witness ==
    /\ Loaded /\ search_button
    /\ Cardinality(MatchSet) >= 2
    /\ out.search_index = Some(0)
    /\ Rows[1]["Name"] # Rows[2]["Name"]
    /\ out.name = Some(Rows[1]["Name"])

\* C3: for 10 or more characters the key is the lowercased first 6, one
\* ellipsis, the lowercased last 4; for fewer it is the lowercased string;
\* for exactly 10 the two windows are the whole string, split after 6.
C3_NormalizeRule ==
    npc # "input" =>
        LET n == Len(wallet)
        IN  /\ n >= 10 =>
                search_wallet = Lower(SubSeq(wallet, 1, 6)) \o <<Ellipsis>>
                                  \o Lower(SubSeq(wallet, n - 3, n))
            /\ (n >= 10 /\ \A i \in 1..n : wallet[i] # 304) =>
                /\ Len(search_wallet) = 11
                /\ \A i \in 1..6 : <<search_wallet[i]>> = LowerChar(wallet[i])
                /\ search_wallet[7] = Ellipsis
                /\ \A i \in 1..4 : <<search_wallet[7 + i]>> = LowerChar(wallet[n - 4 + i])
            /\ n = 10 =>
                search_wallet = Lower(SubSeq(wallet, 1, 6)) \o <<Ellipsis>>
                                  \o Lower(SubSeq(wallet, 7, 10))
            /\ n < 10 => search_wallet = Lower(wallet)

\* a string of exactly 10 characters with capitals in both windows
C3_Witness ==
    /\ npc = "once"
    /\ Len(wallet) = 10
    /\ wallet[6] = 65 /\ wallet[7] = 65
    /\ search_wallet = <<48, 48, 48, 48, 48, 97, Ellipsis, 97, 48, 48, 48>>

\* the search_index the chart construction was given lies in [0, len)
InRange == out.search_index # None /\ 0 <= out.search_index[1] /\ out.search_index[1] < Len(Rows)

\* C4: with an in-range highlight position p the chart is the unhighlighted
\* chart but for the marker of point p in both traces (A: size 12, border
\* 2, accent colour; B: size 8, border 2, accent colour, more opaque fill);
\* every other marker is the default one, and the points, their x and y
\* values and the axis ranges are those of the unhighlighted chart.
C4_HighlightOnlyRestyles ==
    (pc = "built" /\ InRange) =>
        /\ out.exception = "none"
        /\ out.chart # None
        /\ LET c == out.chart[1]
               plain == Figure(cache, None)
               n == Len(Rows)
               p == out.search_index[1]
           IN  /\ NoHighlight(plain)
               /\ c.A.x = plain.A.x /\ c.A.y = plain.A.y /\ c.A.color = plain.A.color
               /\ c.B.x = plain.B.x /\ c.B.y = plain.B.y
               /\ c.yaxis = plain.yaxis /\ c.yaxis2 = plain.yaxis2
               /\ \A i \in 1..n : c.A.x[i] = i - 1 /\ c.A.y[i] = Rows[i]["Odyssey Drop"]
               /\ \A i \in 1..n : c.B.x[i] = i - 1 + 25 /\ c.B.y[i] = Rows[i]["wShards"]
               /\ \A k \in {Len(c.A.x), Len(c.A.y), Len(c.A.size), Len(c.A.line_width),
                            Len(c.A.line_color), Len(c.B.x), Len(c.B.y), Len(c.B.size),
                            Len(c.B.color), Len(c.B.line_width), Len(c.B.line_color)} :
                     k = n
               /\ \A i \in 1..n :
                     IF i = p + 1
                     THEN /\ c.A.size[i] = 12 /\ c.A.size[i] = 2 * plain.A.size[i]
                          /\ c.A.line_width[i] = 2 /\ c.A.line_color[i] = "#00ff00"
                          /\ c.B.size[i] = 8 /\ c.B.size[i] = 2 * plain.B.size[i]
                          /\ c.B.line_width[i] = 2 /\ c.B.line_color[i] = "#00ff00"
                          /\ c.B.color[i] = "rgba(255, 0, 0, 0.8)"
                     ELSE /\ c.A.size[i] = plain.A.size[i]
                          /\ c.A.line_width[i] = plain.A.line_width[i]
                          /\ c.A.line_color[i] = plain.A.line_color[i]
                          /\ c.B.size[i] = plain.B.size[i]
                          /\ c.B.color[i] = plain.B.color[i]
                          /\ c.B.line_width[i] = plain.B.line_width[i]
                          /\ c.B.line_color[i] = plain.B.line_color[i]

\* the first of two points is highlighted, the second is not
C4_Witness ==
    /\ pc = "built" /\ out.search_index = Some(0) /\ Len(Rows) = 2
    /\ out.chart # None
    /\ out.chart[1].A.size = <<12, 6>>
    /\ out.chart[1].B.size = <<8, 4>>

C6_Claim ==
    (Loaded /\ out.chart # None) =>
        \A ax \in {<<out.chart[1].yaxis, Column(cache, "Odyssey Drop")>>,
                   <<out.chart[1].yaxis2, Column(cache, "wShards")>>} :
            /\ ax[1][1] = Num(0)
            /\ ax[1][2].kind = "num"
            /\ SeqMax(ax[2]) >= 1 => ax[1][2] = Num(IntLog10(SeqMax(ax[2])))

\* The position handed to the chart construction is None or the label of
\* a row of the frame: line 71 is the only assignment after line 55.
SearchIndexIsALabel ==
    out.search_index # None =>
        (0 <= out.search_index[1] /\ out.search_index[1] < Len(cache.rows))

\* C8: when the file is unreadable or lacks a required column the load
\* fails as a whole: no frame is kept, the error is shown, and neither the
\* search input nor a chart is offered.
C8_Claim ==
    (pc = "ready" /\ (~csv.readable \/ ~(RequiredColumns \subseteq csv.columns))) =>
        /\ cache.state = "none"
        /\ out.error
        /\ ~out.sidebar
        /\ out.chart = None
        /\ out.exception = "none"

\* the position a search is due, from the table and the request alone
ExpectedIndex(df, w, b) ==
    LET M == {p \in 0..(Len(df.rows) - 1) : df.rows[p + 1]["Wallet_lower"] = process_wallet(w)}
    IN  IF b /\ w # <<>> /\ M # {} THEN Some(SetMin(M)) ELSE None

\* C9: no run of main() changes the file or the loaded frame (rows, order,
\* stored keys); the matched position of a run is decided by the table and
\* that run's input alone; a run that matches nothing renders the chart
\* with no highlight whatever was found before; and a run with the same
\* input as the run before has the same outcome.
C9_SearchesAreLocal ==
    [][ /\ csv' = csv
        /\ pc = "ready" => cache' = cache
        /\ (pc' = "ready" /\ cache'.state = "df" /\ RequiredColumns \subseteq csv.columns) =>
              /\ out'.search_index = ExpectedIndex(cache', wallet_input', search_button')
              /\ out'.chart # None
              /\ out'.search_index = None =>
                    /\ NoHighlight(out'.chart[1])
                    /\ out'.name = None /\ out'.reward = None /\ out'.wshards = None
        /\ (pc = "ready" /\ wallet_input' = wallet_input /\ search_button' = search_button) =>
              out' = out
      ]_vars

\* a search that matches nothing, after an earlier one that matched
C9_Witness ==
    /\ Loaded /\ found_before
    /\ search_button /\ wallet_input # <<>>
    /\ out.search_index = None
    /\ out.rewards = "warning"
    /\ out.chart # None /\ NoHighlight(out.chart[1])

\* C10 as stated: process_wallet applied twice gives what it gives once,
\* for every string.
C10_Orig == npc = "twice" => renorm = search_wallet

\* C10 amended: process_wallet applied twice gives what it gives once for
\* every string whose lowercasing keeps its number of characters; and a
\* string in the display form (6 characters, ellipsis, 4 characters)
\* normalizes to itself lowercased.
C10_IdempotentWhenLengthKept ==
    /\ (npc = "twice" /\ Len(Lower(wallet)) = Len(wallet)) => renorm = search_wallet
    /\ (npc # "input" /\ IsDisplayForm(wallet)) => search_wallet = Lower(wallet)

\* a display form with a capital in each window, normalized twice
C10_Witness ==
    /\ npc = "twice"
    /\ IsDisplayForm(wallet) /\ wallet[1] = 65
    /\ Len(Lower(wallet)) = Len(wallet)
    /\ search_wallet # wallet
    /\ renorm = search_wallet

=============================================================================
